---- MODULE Spec2Model ----
(***************************************************************************)
(* Model of gsearch.py: the GoogleSearcher session (page cache, totals,    *)
(* last payload) and the interactive navigator loop of main().             *)
(* Text is modelled as sequences of one-character strings so that          *)
(* strip/lower/split/startswith/isdigit/int are computed, not assumed.     *)
(***************************************************************************)
EXTENDS Integers, Sequences, FiniteSets, TLC

\* ---------------------------------------------------------------- bounds
MaxItems == 2
MaxSessions == 2
MaxFetch == 2
MaxTotal == 105

\* ------------------------------------------------------ program constants
MaxPages == 10
MaxPerPage == 10
MaxResults == 100
InitTotalPages == 1
InitTotalResults == 0

\* ------------------------------------------------------------ text model
Whitespace == {" "}
DigitChars == <<"0", "1", "2", "3", "4", "5", "6", "7", "8", "9">>
UpperChars == <<"A", "B", "C", "D", "E", "F", "G", "H", "I", "J", "K", "L", "M",
                "N", "O", "P", "Q", "R", "S", "T", "U", "V", "W", "X", "Y", "Z">>
LowerChars == <<"a", "b", "c", "d", "e", "f", "g", "h", "i", "j", "k", "l", "m",
                "n", "o", "p", "q", "r", "s", "t", "u", "v", "w", "x", "y", "z">>

IsDigitChar(c) == \E i \in 1..10 : DigitChars[i] = c
DigitVal(c) == (CHOOSE i \in 1..10 : DigitChars[i] = c) - 1

LowerChar(c) ==
    IF \E i \in 1..26 : UpperChars[i] = c
    THEN LowerChars[CHOOSE i \in 1..26 : UpperChars[i] = c]
    ELSE c

\* str.lower()
Lower(s) == [i \in 1..Len(s) |-> LowerChar(s[i])]

RECURSIVE LStrip(_)
LStrip(s) == IF s # <<>> /\ Head(s) \in Whitespace THEN LStrip(Tail(s)) ELSE s

RECURSIVE RStrip(_)
RStrip(s) ==
    IF s # <<>> /\ s[Len(s)] \in Whitespace
    THEN RStrip(SubSeq(s, 1, Len(s) - 1))
    ELSE s

\* str.strip()
Strip(s) == RStrip(LStrip(s))

\* str.startswith(pre)
StartsWith(s, pre) == Len(s) >= Len(pre) /\ SubSeq(s, 1, Len(pre)) = pre

\* length of the leading run of non-whitespace characters
RECURSIVE TokenLen(_)
TokenLen(s) ==
    IF s = <<>> \/ Head(s) \in Whitespace THEN 0 ELSE 1 + TokenLen(Tail(s))

\* str.split() with no argument: tokens separated by runs of whitespace
RECURSIVE Split(_)
Split(s) ==
    LET t == LStrip(s)
    IN  IF t = <<>> THEN <<>>
        ELSE <<SubSeq(t, 1, TokenLen(t))>> \o Split(SubSeq(t, TokenLen(t) + 1, Len(t)))

\* str.isdigit() on the modelled alphabet
IsDigit(s) == s # <<>> /\ \A i \in 1..Len(s) : IsDigitChar(s[i])

RECURSIVE DecVal(_)
DecVal(s) ==
    IF s = <<>> THEN 0
    ELSE 10 * DecVal(SubSeq(s, 1, Len(s) - 1)) + DigitVal(s[Len(s)])

\* int(s): surrounding whitespace and one sign are accepted, anything else
\* raises ValueError (ok = FALSE)
ParseInt(s) ==
    LET t    == Strip(s)
        sgn  == t # <<>> /\ t[1] \in {"+", "-"}
        body == IF sgn THEN Tail(t) ELSE t
    IN  IF IsDigit(body)
        THEN [ok |-> TRUE,
              val |-> IF sgn /\ t[1] = "-" THEN 0 - DecVal(body) ELSE DecVal(body)]
        ELSE [ok |-> FALSE, val |-> 0]

Min(a, b) == IF a < b THEN a ELSE b


\* ------------------------------------------------------------- the inputs
\* Command-line values of --max
MaxArgValues == {150}
\* Initial query words given on the command line, joined by " "
InitialQueries == {<<"t", "l", "a">>}
\* totalResults strings the API may report in searchInformation
TotalResultsValues == {<<"0">>, <<"5">>, <<"2", "3">>}

\* What the user may type at the "> " prompt (before strip().lower())
RawInputs ==
    { <<"n">>, <<"N">>, <<" ", "p", " ">>,
      <<"g">>, <<"g", " ", "2">>, <<"G", " ", "3">>,
      <<"g", " ", "x">>, <<"g", "o", "l", "a", "n", "g">>,
      <<"q">>, <<"Q", "u", "i", "t">>, <<"e">>, <<"E", "X", "I", "T">>,
      <<"1">>, <<"9">>,
      <<>>, <<" ">>,
      <<"c", "a", "t">>, <<"N", "e", "w", "s">> }

\* What the user may type at the follow-up "Goto page: " prompt
GotoInputs == { <<"1">>, <<" ", "2">>, <<"0">>, <<"7">>, <<"-", "1">>, <<"x">>, <<>> }

\* ---------------------------------------------------------------- values
None == [has |-> FALSE, items |-> <<>>, total |-> <<>>]
NoUrl == <<>>
EmptyCache == [q \in {} |-> <<>>]

\* The items of the API's answer to the request for page p of session s
ApiItems(s, p, n) == [i \in 1..n |-> [link |-> <<s, p, i>>]]

\* An API response: the call raises, or the JSON has no "items" key, or it has
\* "items" (n of them) and searchInformation.totalResults
Responses(s, p, pp) ==
    {[kind |-> "raise", items |-> <<>>, total |-> <<>>],
     [kind |-> "noitems", items |-> <<>>, total |-> <<>>]}
    \cup {[kind |-> "items", items |-> ApiItems(s, p, n), total |-> t] :
            n \in 0..Min(MaxItems, pp), t \in TotalResultsValues}

NoResponse == [kind |-> "nocall", items |-> <<>>, total |-> <<>>]
CachedResponse == [kind |-> "hit", items |-> <<>>, total |-> <<>>]

VARIABLES
    searcher,    \* the current GoogleSearcher object
    query_str,   \* main: query_str
    per_page,    \* main: per_page
    page,        \* main: page
    items,       \* main: items (result of the last search call)
    raw,         \* the line read at the prompt in this iteration
    cmd,         \* main: cmd
    pc,          \* position of main: "search", "prompt", "exited", "crashed"
    exc,         \* the unhandled exception that ended the process, or "none"
    out,         \* console / launcher effects of the last dispatched command
    resp,        \* the network outcome of the last search call
    netcalls,    \* number of HTTP GETs the current session issued, by page
    fetches,     \* number of HTTP GETs issued since start-up
    request,     \* the parameters of the last HTTP GET: page asked for, start, num
    rendered     \* number of print_results calls that drew a page (capped at 1)

vars == <<searcher, query_str, per_page, page, items, raw, cmd, pc, exc, out,
          resp, netcalls, fetches, request, rendered>>

\* ------------------------------------------------------ GoogleSearcher
\* __init__
GoogleSearcher(id, browser_path, save_dir) ==
    [sid |-> id,
     browser_path |-> browser_path,
     save_dir |-> save_dir,
     cached_pages |-> EmptyCache,
     total_pages |-> InitTotalPages,
     total_results |-> InitTotalResults,
     last_data |-> None]

\* page in self.cached_pages
CacheHit_Never(c, p) == FALSE
CacheHit(c, p) == p \in DOMAIN c

\* self.cached_pages[page] = items
CachePut_Single(c, p, its) == [q \in {p} |-> its]
CachePut(c, p, its) == [q \in DOMAIN c \cup {p} |-> IF q = p THEN its ELSE c[q]]

\* min((total_results + per_page - 1) // per_page, 10)
TotalPages_Floor(total_results, pp) == Min(total_results \div pp, MaxPages)
TotalPages_NoCap(total_results, pp) == (total_results + pp - 1) \div pp
TotalPages(total_results, pp) == Min((total_results + pp - 1) \div pp, MaxPages)

Calls(k) == IF k \in DOMAIN netcalls THEN netcalls[k] ELSE 0
CountCall(k) == [q \in DOMAIN netcalls \cup {k} |-> IF q = k THEN Calls(k) + 1 ELSE netcalls[q]]

NoCalls == [k \in {} |-> 0]

\* start = (page - 1) * per_page + 1
StartIndex_ZeroBased(pg, pp) == (pg - 1) * pp
StartIndex(pg, pp) == (pg - 1) * pp + 1

\* params: "start": start, "num": per_page (for the request of page pg)
Params(pg, pp) == [page |-> pg, start |-> StartIndex(pg, pp), num |-> pp]
NoRequest == [page |-> 0, start |-> 0, num |-> 0]

\* ------------------------------------------------------ GoogleSearcher.search
\* What the last command did: the branch taken, the message printed, the URL
\* handed to open_in_browser and whether Popen started the browser, and the
\* text a goto applied int() to
Effect(branch, msg, url, spawned) ==
    [branch |-> branch, msg |-> msg, url |-> url, spawned |-> spawned, target |-> <<>>]
GotoEffect(msg, text) ==
    [branch |-> "goto", msg |-> msg, url |-> NoUrl, spawned |-> FALSE, target |-> text]
NoEffect == Effect("none", "none", NoUrl, FALSE)

\* A new iteration of the loop starts: cmd (and what the model records of the
\* previous command) is written again before it is read, so it is forgotten here
NewIteration ==
    /\ raw' = <<>>
    /\ cmd' = <<>>
    /\ out' = NoEffect

\* The page is cached: it is returned with no I/O
SearchCached ==
    /\ pc = "search"
    /\ CacheHit(searcher.cached_pages, page)
    /\ items' = searcher.cached_pages[page]
    /\ resp' = CachedResponse
    /\ pc' = IF items' = <<>> THEN "exited" ELSE "prompt"
    /\ rendered' = IF items' = <<>> THEN rendered ELSE 1
    /\ NewIteration
    /\ UNCHANGED <<searcher, query_str, per_page, page, exc, netcalls, fetches, request>>

Fetched_AnyPage(data, stored) ==
    [searcher EXCEPT
        !.total_results = ParseInt(data.total).val,
        !.total_pages = TotalPages(ParseInt(data.total).val, per_page),
        !.cached_pages = CachePut(@, page, data.items),
        !.last_data = IF stored THEN data ELSE @]

\* The state of the session after a response whose data (the response itself,
\* or self.last_data when it has no "items") is not None
Fetched(data, stored) ==
    [searcher EXCEPT
        !.total_results = IF page = 1 THEN ParseInt(data.total).val ELSE @,
        !.total_pages = IF page = 1
                        THEN TotalPages(ParseInt(data.total).val, per_page)
                        ELSE @,
        !.cached_pages = CachePut(@, page, data.items),
        !.last_data = IF stored THEN data ELSE @]

\* The page is not cached: one HTTP GET, whose response r decides the rest.
\* werr: save_to_file raises (only when a save directory is configured).
SearchFetchFrom(responses) ==
    /\ pc = "search"
    /\ ~CacheHit(searcher.cached_pages, page)
    /\ fetches < MaxFetch
    /\ request' = Params(page, per_page)
    /\ \E r \in responses, werr \in BOOLEAN :
        LET data == IF r.kind = "noitems"
                    THEN searcher.last_data
                    ELSE [has |-> TRUE, items |-> r.items, total |-> r.total]
        IN  /\ werr => (searcher.save_dir /\ r.kind # "raise" /\ data.has)
            /\ netcalls' = CountCall(page)
            /\ fetches' = fetches + 1
            /\ resp' = r
            /\ IF r.kind = "raise"
               THEN \* session.get / response.json raised
                    /\ pc' = "crashed"
                    /\ exc' = "RequestError"
                    /\ UNCHANGED <<searcher, items, rendered>>
               ELSE IF ~data.has
               THEN \* data is None: data["searchInformation"] / data.get raises
                    /\ pc' = "crashed"
                    /\ exc' = IF page = 1 THEN "TypeError" ELSE "AttributeError"
                    /\ UNCHANGED <<searcher, items, rendered>>
               ELSE IF werr
               THEN \* open(fname, "w") raised after the page was cached
                    /\ pc' = "crashed"
                    /\ exc' = "OSError"
                    /\ searcher' = Fetched(data, FALSE)
                    /\ UNCHANGED <<items, rendered>>
               ELSE /\ searcher' = Fetched(data, TRUE)
                    /\ items' = data.items
                    /\ pc' = IF data.items = <<>> THEN "exited" ELSE "prompt"
                    /\ rendered' = IF data.items = <<>> THEN rendered ELSE 1
                    /\ exc' = exc
    /\ NewIteration
    /\ UNCHANGED <<query_str, per_page, page>>

SearchFetch == SearchFetchFrom(Responses(searcher.sid, page, per_page))

\* ------------------------------------------------------ main: the prompt
\* cmd = searcher.console.input("> ").strip().lower()
ReadCmd(r) ==
    /\ pc = "prompt"
    /\ raw' = r
    /\ cmd' = Lower(Strip(r))

\* the conditions of the if/elif chain of main
NextGuard(c, pg, total) == c = <<"n">> /\ pg < total
PrevGuard(c, pg) == c = <<"p">> /\ pg > 1
GotoGuard(c) == StartsWith(c, <<"g">>)
QuitTokens_Short == {<<"q">>, <<"q", "u", "i", "t">>}
QuitTokens == {<<"q">>, <<"q", "u", "i", "t">>, <<"e">>, <<"e", "x", "i", "t">>}
QuitGuard(c) == Lower(c) \in QuitTokens
DigitGuard(c) == IsDigit(c)

\* the branch of the chain that command c takes on page pg of total pages
Branch(c, pg, total) ==
    IF NextGuard(c, pg, total) THEN "next"
    ELSE IF PrevGuard(c, pg) THEN "prev"
    ELSE IF GotoGuard(c) THEN "goto"
    ELSE IF QuitGuard(c) THEN "quit"
    ELSE IF DigitGuard(c) THEN "digit"
    ELSE IF c # <<>> THEN "newquery"
    ELSE "empty"

Taken(branch) == Branch(cmd', page, searcher.total_pages) = branch

\* page += 1
CmdNext ==
    /\ \E r \in RawInputs : ReadCmd(r)
    /\ Taken("next")
    /\ page' = page + 1
    /\ out' = Effect("next", "none", NoUrl, FALSE)
    /\ pc' = "search"
    /\ UNCHANGED <<searcher, query_str, per_page, items, exc, resp, netcalls,
                   fetches, request, rendered>>

\* page -= 1
CmdPrev ==
    /\ \E r \in RawInputs : ReadCmd(r)
    /\ Taken("prev")
    /\ page' = page - 1
    /\ out' = Effect("prev", "none", NoUrl, FALSE)
    /\ pc' = "search"
    /\ UNCHANGED <<searcher, query_str, per_page, items, exc, resp, netcalls,
                   fetches, request, rendered>>

\* 1 <= goto <= searcher.total_pages
GotoInRange_ZeroBased(goto, total) == 0 <= goto /\ goto <= total
GotoInRange(goto, total) == 1 <= goto /\ goto <= total

\* The text int() is applied to: cmd.split()[1], or the answer to "Goto page: "
GotoText(c, answer) == IF Len(Split(c)) > 1 THEN Split(c)[2] ELSE answer

\* goto = int(...); page = goto, or one of the two messages
CmdGotoFrom(answers) ==
    /\ \E r \in RawInputs : ReadCmd(r)
    /\ Taken("goto")
    /\ \E answer \in answers :
        LET goto == ParseInt(GotoText(cmd', answer))
        IN  /\ (Len(Split(cmd')) > 1) => answer = <<>>
            /\ IF ~goto.ok
               THEN /\ out' = GotoEffect("format_error", GotoText(cmd', answer))
                    /\ page' = page
               ELSE IF GotoInRange(goto.val, searcher.total_pages)
               THEN /\ out' = GotoEffect("none", GotoText(cmd', answer))
                    /\ page' = goto.val
               ELSE /\ out' = GotoEffect("invalid_page", GotoText(cmd', answer))
                    /\ page' = page
    /\ pc' = "search"
    /\ UNCHANGED <<searcher, query_str, per_page, items, exc, resp, netcalls,
                   fetches, request, rendered>>

CmdGoto == CmdGotoFrom(GotoInputs)

\* break
CmdQuit ==
    /\ \E r \in RawInputs : ReadCmd(r)
    /\ Taken("quit")
    /\ out' = Effect("quit", "none", NoUrl, FALSE)
    /\ pc' = "exited"
    /\ UNCHANGED <<searcher, query_str, per_page, page, items, exc, resp, netcalls,
                   fetches, request, rendered>>

\* 1 <= idx <= len(items)
SelectInRange(idx, its) == 1 <= idx /\ idx <= Len(its)

\* url = items[idx - 1]['link'] (Python indexes from 0, the model from 1)
SelectedLink_OffByOne(idx, its) == its[IF idx < Len(its) THEN idx + 1 ELSE 1].link
SelectedLink(idx, its) == its[idx].link

\* open_in_browser: no browser path, Popen succeeds, or Popen raises (caught)
CmdDigit ==
    /\ \E r \in RawInputs : ReadCmd(r)
    /\ Taken("digit")
    /\ LET idx == ParseInt(cmd').val
       IN  IF SelectInRange(idx, items)
           THEN \E spawn \in BOOLEAN :
                  out' = IF ~searcher.browser_path
                         THEN Effect("digit", "no_browser", SelectedLink(idx, items), FALSE)
                         ELSE IF spawn
                         THEN Effect("digit", "opening", SelectedLink(idx, items), TRUE)
                         ELSE Effect("digit", "launch_failed", SelectedLink(idx, items), FALSE)
           ELSE out' = Effect("digit", "invalid_number", NoUrl, FALSE)
    /\ pc' = "search"
    /\ UNCHANGED <<searcher, query_str, per_page, page, items, exc, resp, netcalls,
                   fetches, request, rendered>>

\* query_str = cmd; searcher = GoogleSearcher(...)
CmdNewQuery ==
    /\ searcher.sid < MaxSessions
    /\ \E r \in RawInputs : ReadCmd(r)
    /\ Taken("newquery")
    /\ query_str' = cmd'
    /\ searcher' = GoogleSearcher(searcher.sid + 1, searcher.browser_path, searcher.save_dir)
    /\ out' = Effect("newquery", "none", NoUrl, FALSE)
    /\ netcalls' = NoCalls
    /\ pc' = "search"
    /\ UNCHANGED <<per_page, page, items, exc, resp, fetches, request, rendered>>

\* print("Perintah tidak dikenal.")
CmdEmpty ==
    /\ \E r \in RawInputs : ReadCmd(r)
    /\ Taken("empty")
    /\ out' = Effect("empty", "unknown_command", NoUrl, FALSE)
    /\ pc' = "search"
    /\ UNCHANGED <<searcher, query_str, per_page, page, items, exc, resp, netcalls,
                   fetches, request, rendered>>

\* ------------------------------------------------------ main: start-up
\* args.max > 100 is clamped; per_page = min(10, args.max)
PerPage(max) == Min(MaxPerPage, IF max > MaxResults THEN MaxResults ELSE max)

Init ==
    /\ \E bp \in BOOLEAN, sd \in BOOLEAN : searcher = GoogleSearcher(1, bp, sd)
    /\ query_str \in InitialQueries
    /\ per_page \in {PerPage(m) : m \in MaxArgValues}
    /\ page = 1
    /\ items = <<>>
    /\ raw = <<>>
    /\ cmd = <<>>
    /\ pc = "search"
    /\ exc = "none"
    /\ out = NoEffect
    /\ resp = NoResponse
    /\ netcalls = NoCalls
    /\ fetches = 0
    /\ request = NoRequest
    /\ rendered = 0

Next ==
    \/ SearchCached
    \/ SearchFetch
    \/ CmdNext
    \/ CmdPrev
    \/ CmdGoto
    \/ CmdQuit
    \/ CmdDigit
    \/ CmdNewQuery
    \/ CmdEmpty

Spec == Init /\ [][Next]_vars

\* ------------------------------------------------ the first fetch, widely
\* The decimal string of a number, as the API writes totalResults
RECURSIVE ToDigits(_)
ToDigits(n) ==
    IF n < 10 THEN <<DigitChars[n + 1]>>
    ELSE ToDigits(n \div 10) \o <<DigitChars[(n % 10) + 1]>>

\* Every value of --max that gives a per_page of 1..10
WideMaxArgs == (1..(MaxPerPage + 1)) \cup {MaxResults + 50}

\* Responses whose totalResults is any of 0..MaxTotal
WideResponses(s, p, pp) ==
    Responses(s, p, pp)
    \cup {[kind |-> "items", items |-> ApiItems(s, p, n), total |-> ToDigits(t)] :
            n \in 0..Min(MaxItems, pp), t \in 0..MaxTotal}

\* main up to the loop, for every per_page
TotalsInit ==
    /\ \E bp \in BOOLEAN, sd \in BOOLEAN : searcher = GoogleSearcher(1, bp, sd)
    /\ query_str \in InitialQueries
    /\ per_page \in {PerPage(m) : m \in WideMaxArgs}
    /\ page = 1
    /\ items = <<>>
    /\ raw = <<>>
    /\ cmd = <<>>
    /\ pc = "search"
    /\ exc = "none"
    /\ out = NoEffect
    /\ resp = NoResponse
    /\ netcalls = NoCalls
    /\ fetches = 0
    /\ request = NoRequest
    /\ rendered = 0

\* the first search call of the run: the fetch of page 1
FirstFetch == SearchFetchFrom(WideResponses(searcher.sid, page, per_page))

SpecTotals == TotalsInit /\ [][FirstFetch]_vars

\* ---- navigation in a result set of ten pages ----

\* --max 1 and the default: per_page 1 and 10
PagesMaxArgs == {1, MaxResults + 50}

\* totalResults "95": ten pages with per_page 10, and more than ten, cut to ten,
\* with per_page 1
PagesResponses(s, p, pp) ==
    {r \in WideResponses(s, p, pp) : r.kind = "items" => r.total = <<"9", "5">>}

\* answers to "Goto page: ": the last page, the one after it, none
PagesGotoInputs == { <<"1", "0">>, <<"1", "1">>, <<"0">>, <<>> }

PagesInit ==
    /\ \E bp \in BOOLEAN, sd \in BOOLEAN : searcher = GoogleSearcher(1, bp, sd)
    /\ query_str \in InitialQueries
    /\ per_page \in {PerPage(m) : m \in PagesMaxArgs}
    /\ page = 1
    /\ items = <<>>
    /\ raw = <<>>
    /\ cmd = <<>>
    /\ pc = "search"
    /\ exc = "none"
    /\ out = NoEffect
    /\ resp = NoResponse
    /\ netcalls = NoCalls
    /\ fetches = 0
    /\ request = NoRequest
    /\ rendered = 0

PagesFetch == SearchFetchFrom(PagesResponses(searcher.sid, page, per_page))

PagesGoto == CmdGotoFrom(PagesGotoInputs)

PagesNext ==
    \/ SearchCached
    \/ PagesFetch
    \/ CmdNext
    \/ CmdPrev
    \/ PagesGoto
    \/ CmdQuit
    \/ CmdDigit
    \/ CmdNewQuery
    \/ CmdEmpty

SpecPages == PagesInit /\ [][PagesNext]_vars

\* ================================================================ claims

\* C1: a new query entered at the prompt restarts browsing at page 1: right
\* after the new session is created page is 1, and a session's first request
\* is the request for page 1.
C1_NewQueryStartsAtPageOne ==
    /\ (out.branch = "newquery" /\ pc = "search") => page = 1
    /\ DOMAIN netcalls # {} => 1 \in DOMAIN netcalls

\* C2: a step that replaces the session leaves an empty cache, total_pages 1,
\* total_results 0 and no last payload; a step within a session keeps every
\* cached page as it is; every cached item and the last payload come from
\* requests of the current session.
C2_FreshSessionAndStableCache ==
    [][ /\ (searcher'.sid # searcher.sid) =>
              /\ DOMAIN searcher'.cached_pages = {}
              /\ searcher'.total_pages = 1
              /\ searcher'.total_results = 0
              /\ ~searcher'.last_data.has
        /\ (searcher'.sid = searcher.sid) =>
              \A p \in DOMAIN searcher.cached_pages :
                  /\ p \in DOMAIN searcher'.cached_pages
                  /\ searcher'.cached_pages[p] = searcher.cached_pages[p]
        /\ \A p \in DOMAIN searcher'.cached_pages :
              \A i \in 1..Len(searcher'.cached_pages[p]) :
                  searcher'.cached_pages[p][i].link[1] = searcher'.sid
        /\ \A i \in 1..Len(searcher'.last_data.items) :
              searcher'.last_data.items[i].link[1] = searcher'.sid
      ]_vars

C2_Witness ==
    /\ out.branch = "newquery"
    /\ searcher.sid = 2
    /\ DOMAIN searcher.cached_pages = {}
    /\ ~searcher.last_data.has
    /\ fetches >= 1

\* C3: a session issues at most one request per page, and a search for a
\* cached page returns the cached items, issues no request and leaves the
\* session as it is.
C3_AtMostOneCallPerPage ==
    [][ /\ \A p \in DOMAIN netcalls' : netcalls'[p] <= 1
        /\ (pc = "search" /\ page \in DOMAIN searcher.cached_pages) =>
              /\ items' = searcher.cached_pages[page]
              /\ netcalls' = netcalls
              /\ fetches' = fetches
              /\ searcher' = searcher
      ]_vars

C3_Witness ==
    /\ resp.kind = "hit"
    /\ pc = "prompt"
    /\ Calls(page) = 1
    /\ items = searcher.cached_pages[page]

\* C4: command n moves to page + 1 of the same session when page < total_pages
\* and changes nothing (page, query, session, cache) when page = total_pages.
C4_NextAtLastPageIsNoOp ==
    [][ (pc = "prompt" /\ cmd' = <<"n">> /\ page <= searcher.total_pages) =>
            /\ searcher' = searcher
            /\ query_str' = query_str
            /\ (page < searcher.total_pages) => page' = page + 1
            /\ (page = searcher.total_pages) => page' = page
      ]_vars

\* C5: command p moves to page - 1 of the same session when page > 1 and
\* changes nothing (page, query, session, cache) when page = 1.
C5_PrevAtFirstPageIsNoOp ==
    [][ (pc = "prompt" /\ cmd' = <<"p">> /\ page >= 1) =>
            /\ searcher' = searcher
            /\ query_str' = query_str
            /\ (page > 1) => page' = page - 1
            /\ (page = 1) => page' = page
      ]_vars

\* C6: a goto whose target text is the integer k sets page to k exactly when
\* 1 <= k <= total_pages; for any other target (out of range, not a number,
\* missing) page is unchanged and a message is printed; query and session are
\* unchanged either way.
C6_GotoSetsPageIffInRange ==
    [][ (out'.branch = "goto") =>
            LET k == ParseInt(out'.target)
            IN  /\ searcher' = searcher
                /\ query_str' = query_str
                /\ pc' = "search"
                /\ IF k.ok /\ 1 <= k.val /\ k.val <= searcher.total_pages
                   THEN page' = k.val /\ out'.msg = "none"
                   ELSE page' = page /\ out'.msg \in {"invalid_page", "format_error"}
      ]_vars

C6_Witness ==
    /\ out.branch = "goto"
    /\ out.msg = "none"
    /\ page = 2
    /\ ParseInt(out.target).val = 2
    /\ searcher.total_pages >= 2

\* The reserved commands of the prompt: n, p, g, g <k>, q, quit, e, exit
ReservedCommand(c) ==
    \/ c \in {<<"n">>, <<"p">>, <<"g">>, <<"q">>, <<"q", "u", "i", "t">>,
              <<"e">>, <<"e", "x", "i", "t">>}
    \/ (Len(Split(c)) = 2 /\ Split(c)[1] = <<"g">>)

\* C7: a non-empty command that is neither a reserved command nor a digit
\* string starts a new session whose query is that text, also when the text
\* begins with a reserved letter.
C7_OtherTextStartsNewQuery ==
    [][ (pc = "prompt" /\ cmd' # <<>> /\ ~ReservedCommand(cmd') /\ ~IsDigit(cmd')) =>
            /\ out'.branch = "newquery"
            /\ out'.msg = "none"
            /\ query_str' = cmd'
            /\ searcher'.sid = searcher.sid + 1
      ]_vars

\* C8: a digit command d hands link d of the displayed page to the browser
\* launcher exactly when 1 <= d <= len(items); otherwise the invalid-number
\* message is printed and nothing is launched; page, query, session and cache
\* are unchanged and the loop goes on. The browser is only ever started on
\* that link.
C8_DigitOpensSelectedLink ==
    [][ (pc = "prompt" /\ IsDigit(cmd')) =>
            LET d == DecVal(cmd')
                shown == searcher.cached_pages[page]
            IN  /\ searcher' = searcher
                /\ query_str' = query_str
                /\ page' = page
                /\ items' = items
                /\ pc' = "search"
                /\ IF 1 <= d /\ d <= Len(shown)
                   THEN /\ out'.url = shown[d].link
                        /\ out'.msg \in {"opening", "no_browser", "launch_failed"}
                        /\ out'.spawned <=> out'.msg = "opening"
                   ELSE /\ out'.url = NoUrl
                        /\ out'.msg = "invalid_number"
                        /\ ~out'.spawned
      ]_vars

C8_Witness ==
    /\ out.branch = "digit"
    /\ cmd = <<"1">>
    /\ out.spawned
    /\ Len(items) = 2
    /\ out.url = searcher.cached_pages[page][1].link
    /\ pc = "search"

\* C9: each of q, quit, e, exit, in any letter case, can be entered at every
\* prompt and ends the loop; once the loop has ended nothing more happens (no
\* fetch, no command).
C9_QuitExits ==
    /\ (raw \in {<<"q">>, <<"Q", "u", "i", "t">>, <<"e">>, <<"E", "X", "I", "T">>}) =>
            (pc = "exited" /\ out.branch = "quit")
    /\ (pc = "prompt") => ENABLED CmdQuit
    /\ (pc = "exited") => ~ENABLED Next

C9_Witness ==
    /\ pc = "exited"
    /\ out.branch = "quit"
    /\ raw = <<"E", "X", "I", "T">>
    /\ page = 2

\* C10: when the response for the page being entered has no result items the
\* loop ends normally; when that is the first fetch of the run, no page was
\* drawn.
C10_EmptyPageEndsLoop ==
    (resp.kind = "noitems" \/ (resp.kind = "items" /\ resp.items = <<>>)) =>
        /\ pc = "exited"
        /\ exc = "none"
        /\ (fetches = 1) => rendered = 0

\* C11: a fetch failure (the request or the JSON parsing raises) never ends
\* the process: the loop goes on or ends normally.
C11_FetchFailureNeverCrashes ==
    (resp.kind = "raise") => (pc # "crashed" /\ exc = "none")

\* C12: when the response has no result items, search raises nothing and
\* hands an empty sequence to the caller, with or without an earlier payload.
C12_NoItemsGivesEmptyResult ==
    (resp.kind = "noitems") =>
        /\ exc \notin {"TypeError", "AttributeError"}
        /\ pc # "crashed"
        /\ items = <<>>

\* The least k with k * b >= a (a >= 0, b >= 1)
CeilDiv(a, b) == CHOOSE k \in 0..a : k * b >= a /\ (k = 0 \/ (k - 1) * b < a)

\* C13: after a fetch of page 1 that reports totalResults t, total_results is
\* t and total_pages is min(ceil(t / per_page), 10), for every per_page in
\* 1..10.
C13_TotalPagesFormula ==
    (resp.kind = "items") =>
        LET t == DecVal(resp.total)
            c == CeilDiv(t, per_page)
        IN  /\ per_page \in 1..10
            /\ request.page = 1
            /\ searcher.total_results = t
            /\ searcher.total_pages = IF c < 10 THEN c ELSE 10

C13_Witness ==
    /\ resp.kind = "items"
    /\ resp.total = <<"9", "5">>
    /\ per_page = 10
    /\ searcher.total_results = 95
    /\ searcher.total_pages = 10

\* C14 as stated: total_pages is in 1..10 and total_results is at least 0.
C14_TotalsInRange ==
    /\ searcher.total_pages \in 1..10
    /\ searcher.total_results >= 0

\* C14, amended: total_pages is in 0..10, 0 only when the stored total_results
\* is 0, and total_results is at least 0.
C14_TotalsInRangeFromZero ==
    /\ searcher.total_pages \in 0..10
    /\ searcher.total_results >= 0
    /\ (searcher.total_pages = 0) => (searcher.total_results = 0)

C14_Witness ==
    /\ resp.kind = "items"
    /\ resp.total = <<"0">>
    /\ resp.items # <<>>
    /\ pc = "prompt"
    /\ searcher.total_pages = 0
    /\ searcher.total_results = 0

\* C15: page is in 1..total_pages of the current session, in every state and
\* across the replacement of the session by a new query.  Stated for sessions
\* whose total_pages is at least 1, where the range is not empty.
C15_PageWithinTotalPages ==
    (searcher.total_pages >= 1) => (page \in 1..searcher.total_pages)

\* C16 as stated: from the creation of the session on, total_pages equals
\* min(ceil(total_results / per_page), 10).
C16_TotalPagesInvariant ==
    searcher.total_pages = Min(CeilDiv(searcher.total_results, per_page), 10)

\* C16, amended: once the session has stored page 1, total_pages equals
\* min(ceil(total_results / per_page), 10); until then total_pages is 1 and
\* total_results is 0.
C16_TotalPagesInvariantAfterPageOne ==
    IF 1 \in DOMAIN searcher.cached_pages
    THEN searcher.total_pages = Min(CeilDiv(searcher.total_results, per_page), 10)
    ELSE searcher.total_pages = 1 /\ searcher.total_results = 0

C16_Witness ==
    /\ 1 \in DOMAIN searcher.cached_pages
    /\ 2 \in DOMAIN searcher.cached_pages
    /\ page = 2
    /\ per_page = 10
    /\ searcher.total_results = 23
    /\ searcher.total_pages = 3

\* C17: within one session total_results and total_pages change only in a
\* cache-miss fetch of page 1, which stores page 1; once page 1 is stored they
\* never change again, so a cache hit on page 1 and a fetch of any other page
\* leave them as they are.
C17_TotalsAssignedOnceByPageOneFetch ==
    [][ (searcher'.sid = searcher.sid) =>
            /\ (\/ searcher'.total_results # searcher.total_results
                \/ searcher'.total_pages # searcher.total_pages) =>
                  /\ pc = "search"
                  /\ page = 1
                  /\ 1 \notin DOMAIN searcher.cached_pages
                  /\ 1 \in DOMAIN searcher'.cached_pages
                  /\ fetches' = fetches + 1
            /\ (1 \in DOMAIN searcher.cached_pages \/ page # 1 \/ fetches' = fetches) =>
                  /\ searcher'.total_results = searcher.total_results
                  /\ searcher'.total_pages = searcher.total_pages
      ]_vars

C17_Witness ==
    /\ resp.kind = "hit"
    /\ page = 1
    /\ DOMAIN searcher.cached_pages = {1, 2}
    /\ searcher.last_data.total = <<"5">>
    /\ searcher.total_results = 23
    /\ searcher.total_pages = 3

\* C18: every cache entry for page p of a session holds items the API returned
\* for the request of page p in that session, also after a response without
\* "items" fell back to the previous payload.
C18_CacheEntryHoldsOwnPageItems ==
    \A p \in DOMAIN searcher.cached_pages :
        \A i \in 1..Len(searcher.cached_pages[p]) :
            /\ searcher.cached_pages[p][i].link[1] = searcher.sid
            /\ searcher.cached_pages[p][i].link[2] = p

\* C19: a failure to write the file of a fetched page is not fatal: the loop
\* goes on, the fetched items are cached and returned, and the payload is
\* recorded as the session's last one.
C19_WriteFailureIsNonFatal ==
    (exc = "OSError") =>
        /\ pc # "crashed"
        /\ page \in DOMAIN searcher.cached_pages
        /\ items = searcher.cached_pages[page]
        /\ searcher.last_data.has

\* C20: the navigator's page is in 1..10 in every state, across session
\* replacements, and every request sent is for a page in 1..10 with
\* start = (page - 1) * per_page + 1 and num = per_page <= 10.
C20_PageAndRequestInRange ==
    /\ page \in 1..10
    /\ (request # NoRequest) =>
          /\ request.page \in 1..10
          /\ request.start = (request.page - 1) * per_page + 1
          /\ request.num = per_page
          /\ request.num <= 10

C20_Witness ==
    /\ searcher.sid = 2
    /\ page = 10
    /\ request.page = 10
    /\ request.start = 91
    /\ request.num = 10
    /\ out.branch = "newquery"

====
